---- MODULE Spec2Model ----
(***************************************************************************)
(* Model of the Njalla record provider                                     *)
(* (src/src/lexicon/_private/providers/njalla.py).                         *)
(*                                                                         *)
(* The provider instance holds domain_id and its configuration (the API    *)
(* token, the ttl option); the zone lives at the remote service.  Every    *)
(* public operation is one action: it issues its remote calls in the order *)
(* of the code, each answered by the remote service with a result, an      *)
(* error envelope or an HTTP failure, and records what it did in `last'.   *)
(*                                                                         *)
(* The dict literal at njalla.py:89-93 is written without the commas       *)
(* between its items; the model reads it as the three-item dict it spells. *)
(***************************************************************************)
EXTENDS Integers, Sequences, FiniteSets, TLC

VARIABLES
    remote,      \* the zone at the remote service: a sequence of its records
    nextId,      \* the next identifier the remote service assigns
    domain_id,   \* Provider.domain_id
    auth_token,  \* the provider option auth_token
    ttl_option,  \* the lexicon option ttl
    last         \* the last operation: its arguments, its remote calls, its outcome

vars == <<remote, nextId, domain_id, auth_token, ttl_option, last>>

----------------------------------------------------------------------------
(* Bounds *)

\* the number of records the remote service is asked to create in a run
MaxCreates == 2

----------------------------------------------------------------------------
(* Python values.  A value is a record [t, d]: None, an int (d = <<n>>),   *)
(* a decimal string (d = its digits), or Missing for a key a dict lacks.   *)

PyNone == [t |-> "none", d |-> <<>>]
Missing == [t |-> "missing", d |-> <<>>]
PyInt(n) == [t |-> "int", d |-> <<n>>]
PyStr(ds) == [t |-> "str", d |-> ds]

\* the value of a string of decimal digits
RECURSIVE DigitsValue(_)
DigitsValue(ds) ==
    IF ds = <<>> THEN 0
    ELSE 10 * DigitsValue(SubSeq(ds, 1, Len(ds) - 1)) + ds[Len(ds)]

\* int(x) for an int or a decimal string
ToInt(x) == IF x.t = "int" THEN x ELSE PyInt(DigitsValue(x.d))

\* bool(x): None, 0 and "" are false
Truthy(x) ==
    CASE x.t = "none" -> FALSE
      [] x.t = "missing" -> FALSE
      [] x.t = "int" -> x.d[1] # 0
      [] OTHER -> x.d # <<>>

\* str.lower() on the record types of the model
Lower(s) ==
    CASE s = "SRV" -> "srv"
      [] s = "TXT" -> "txt"
      [] OTHER -> s

\* an argument left at its default None (strings and names)
NoStr == "<None>"
NoName == <<NoStr>>

----------------------------------------------------------------------------
(* The configured domain and record names (sequences of labels) *)

Domain == <<"example", "com">>
OtherDomain == <<"example", "org">>

EndsWith(s, suffix) ==
    /\ Len(s) >= Len(suffix)
    /\ SubSeq(s, Len(s) - Len(suffix) + 1, Len(s)) = suffix

\* BaseProvider._full_name: a relative name is suffixed with the domain
FullName(n) == IF EndsWith(n, Domain) THEN n ELSE n \o Domain

DefaultTTL == 60

----------------------------------------------------------------------------
(* The remote service (JSON-RPC over HTTPS).  A request is answered with   *)
(* {"result": ...}, with {"error": {code, message}}, or with a non-2xx     *)
(* status; only a request answered with a result changes the zone.         *)

Replies == {"ok", "error", "http"}

NoParams ==
    [domain |-> Domain, id |-> Missing, type |-> NoStr, name |-> NoName,
     content |-> NoStr, ttl |-> Missing, prio |-> Missing, weight |-> Missing,
     port |-> Missing]

NoResult == [name |-> NoName, records |-> <<>>]

HasId(zone, id) == \E i \in 1..Len(zone) : zone[i].id = id

\* the record add-record persists, with the identifier the service assigns
NewRecord(nid, params) ==
    [id |-> PyInt(nid), type |-> params.type, name |-> params.name,
     ttl |-> params.ttl, content |-> params.content,
     prio |-> params.prio, weight |-> params.weight, port |-> params.port]

RemoteAdd(zone, nid, params) == Append(zone, NewRecord(nid, params))

RemoteEdit(zone, params) ==
    [i \in 1..Len(zone) |->
        IF zone[i].id = params.id THEN [zone[i] EXCEPT !.content = params.content]
        ELSE zone[i]]

RemoteRemove(zone, params) == SelectSeq(zone, LAMBDA r : r.id # params.id)

\* a call for a record the zone does not hold is answered with an error
RemoteKind(method, params, reply, zone) ==
    IF /\ reply = "ok"
       /\ method \in {"edit-record", "remove-record"}
       /\ ~HasId(zone, params.id)
    THEN "error" ELSE reply

Answer(kind, result, zone, nid) ==
    [kind |-> kind, result |-> result, zone |-> zone, nid |-> nid]

\* what the remote service answers, and the zone it leaves; `reply' is the
\* environment's choice, `who' the registered name a get-domain returns
RemoteServe(method, params, reply, who, zone, nid) ==
    IF RemoteKind(method, params, reply, zone) # "ok"
    THEN Answer(RemoteKind(method, params, reply, zone), NoResult, zone, nid)
    ELSE CASE method = "get-domain" ->
                Answer("ok", [name |-> who, records |-> <<>>], zone, nid)
           [] method = "list-records" ->
                Answer("ok", [name |-> NoName, records |-> zone], zone, nid)
           [] method = "add-record" ->
                Answer("ok", [name |-> NoName, records |-> <<NewRecord(nid, params)>>],
                       RemoteAdd(zone, nid, params), nid + 1)
           [] method = "edit-record" ->
                Answer("ok", NoResult, RemoteEdit(zone, params), nid)
           [] OTHER ->
                Answer("ok", NoResult, RemoteRemove(zone, params), nid)

----------------------------------------------------------------------------
(* Provider._request and Provider._api_call *)

ErrNoToken == "Must provide API token"
ErrHTTP == "HTTPError"
ErrRemote == "<code>: <message>"

\* response.raise_for_status(), then response.json()
RaiseForStatus(resp) ==
    [err |-> IF resp.kind = "http" THEN ErrHTTP ELSE "",
     error |-> resp.kind = "error",
     result |-> resp.result, zone |-> resp.zone, nid |-> resp.nid]

\* Provider._request: POST the envelope to the remote service
Request(method, params, reply, who, zone, nid) ==
    RaiseForStatus(RemoteServe(method, params, reply, who, zone, nid))

\* a remote call as `last' records it: the method, the domain and the
\* identifier it was sent with, how it ended, and the name a get-domain returned
Call(method, params, err, name) ==
    [method |-> method, domain |-> params.domain, id |-> params.id,
     err |-> err, name |-> name]

\* an "error" key in the response raises "<code>: <message>"
ResponseErr(response) ==
    IF response.err # "" THEN response.err
    ELSE IF response.error THEN ErrRemote ELSE ""

Decoded(method, params, response) ==
    [err |-> ResponseErr(response),
     calls |-> <<Call(method, params, ResponseErr(response), response.result.name)>>,
     result |-> response.result, zone |-> response.zone, nid |-> response.nid]

\* Provider._api_call: no token, no request
ApiCall(token, method, params, reply, who, zone, nid) ==
    IF token = NoStr
    THEN [err |-> ErrNoToken, calls |-> <<>>, result |-> NoResult,
          zone |-> zone, nid |-> nid]
    ELSE Decoded(method, params, Request(method, params, reply, who, zone, nid))

\* what an operation comes to: the exception it raised ("" when it returned),
\* the remote calls it issued, the zone it leaves, the records it returned
Outcome(err, calls, zone, nid, records) ==
    [err |-> err, calls |-> calls, zone |-> zone, nid |-> nid, records |-> records]

----------------------------------------------------------------------------
(* Provider.list_records *)

ErrKey == "KeyError"

\* MapRecord with priority and weight taken from each other's remote field
MutMapRecordSwapped(record) ==
    [id |-> record.id, type |-> record.type, name |-> FullName(record.name),
     ttl |-> record.ttl, content |-> record.content,
     priority |-> IF Lower(record.type) = "srv" THEN record.weight ELSE Missing,
     weight |-> IF Lower(record.type) = "srv" THEN record.prio ELSE Missing,
     port |-> IF Lower(record.type) = "srv" THEN record.port ELSE Missing]

\* the canonical record built from a remote record (njalla.py:81-94); a
\* record that is not SRV has no priority, weight and port keys
MapRecord(record) ==
    [id |-> record.id, type |-> record.type, name |-> FullName(record.name),
     ttl |-> record.ttl, content |-> record.content,
     priority |-> IF Lower(record.type) = "srv" THEN record.prio ELSE Missing,
     weight |-> IF Lower(record.type) = "srv" THEN record.weight ELSE Missing,
     port |-> IF Lower(record.type) = "srv" THEN record.port ELSE Missing]

\* record[key] == wanted, for a key the record may lack
KeyEquals(value, wanted) ==
    IF value = Missing THEN ErrKey ELSE IF value = wanted THEN "keep" ELSE "drop"

\* the condition of the list comprehension (njalla.py:97-104), evaluated left
\* to right with `and' cutting short: "keep", "drop" or ErrKey
FilterRecord(record, f) ==
    IF ~(f.rtype = NoStr \/ record.type = f.rtype) THEN "drop"
    ELSE IF ~(f.name = NoName \/ record.name = FullName(f.name)) THEN "drop"
    ELSE IF ~(f.content = NoStr \/ record.content = f.content) THEN "drop"
    ELSE IF f.priority # PyNone /\ KeyEquals(record.priority, f.priority) # "keep"
         THEN KeyEquals(record.priority, f.priority)
    ELSE IF f.weight # PyNone /\ KeyEquals(record.weight, f.weight) # "keep"
         THEN KeyEquals(record.weight, f.weight)
    ELSE IF f.port # PyNone /\ KeyEquals(record.port, f.port) # "keep"
         THEN KeyEquals(record.port, f.port)
    ELSE "keep"

\* processed_records (njalla.py:79-94)
Processed(records) == [i \in 1..Len(records) |-> MapRecord(records[i])]

\* filtered_records (njalla.py:95-107)
Filtered(calls, processed, f, zone, nid) ==
    IF \E i \in 1..Len(processed) : FilterRecord(processed[i], f) = ErrKey
    THEN Outcome(ErrKey, calls, zone, nid, <<>>)
    ELSE Outcome("", calls, zone, nid,
                 SelectSeq(processed, LAMBDA r : FilterRecord(r, f) = "keep"))

\* list_records once its list-records call has returned or raised
Listed(call, f) ==
    IF call.err # ""
    THEN Outcome(call.err, call.calls, call.zone, call.nid, <<>>)
    ELSE Filtered(call.calls, Processed(call.result.records), f, call.zone, call.nid)

\* Provider.list_records: one list-records call, then map, then filter
ListRecordsOutcome(token, f, reply, zone, nid) ==
    Listed(ApiCall(token, "list-records", NoParams, reply, Domain, zone, nid), f)

----------------------------------------------------------------------------
(* Provider._get_record_identifier *)

ErrUnambiguous == "Unambiguous record could not be found."

Filter(rtype, name, content, priority, weight, port) ==
    [rtype |-> rtype, name |-> name, content |-> content,
     priority |-> priority, weight |-> weight, port |-> port]

\* OnlyRecord taking the first of several records
MutOnlyRecordFirst(listed) ==
    IF listed.err # "" THEN listed
    ELSE IF Len(listed.records) >= 1 THEN listed
    ELSE [listed EXCEPT !.err = ErrUnambiguous]

\* njalla.py:153-156: the records listed are returned (their first carries the
\* identifier) when there is exactly one, otherwise the exception is raised
OnlyRecord(listed) ==
    IF listed.err # "" THEN listed
    ELSE IF Len(listed.records) = 1 THEN listed
    ELSE [listed EXCEPT !.err = ErrUnambiguous]

GetRecordIdentifier(token, rtype, name, content, reply, zone, nid) ==
    OnlyRecord(ListRecordsOutcome(
                   token, Filter(rtype, name, content, PyNone, PyNone, PyNone),
                   reply, zone, nid))

\* `if not identifier' is false: no resolution, the identifier given is used
Given(identifier, zone, nid) ==
    Outcome("", <<>>, zone, nid, <<[id |-> identifier]>>)

----------------------------------------------------------------------------
(* Provider.create_record *)

ErrSRVRequired == "Priority, weight, and port are required to create SRV records."

\* CreateParams ignoring the ttl option
MutCreateParamsFixedTTL(ttl, rtype, name, content, priority, weight, port) ==
    [NoParams EXCEPT
        !.type = rtype, !.name = name, !.content = content,
        !.ttl = PyInt(DefaultTTL),
        !.prio = IF Lower(rtype) = "srv" THEN ToInt(priority) ELSE Missing,
        !.weight = IF Lower(rtype) = "srv" THEN ToInt(weight) ELSE Missing,
        !.port = IF Lower(rtype) = "srv" THEN ToInt(port) ELSE Missing]

\* the add-record parameters (njalla.py:48-65)
CreateParams(ttl, rtype, name, content, priority, weight, port) ==
    [NoParams EXCEPT
        !.type = rtype, !.name = name, !.content = content,
        !.ttl = IF Truthy(ttl) THEN ttl ELSE PyInt(DefaultTTL),
        !.prio = IF Lower(rtype) = "srv" THEN ToInt(priority) ELSE Missing,
        !.weight = IF Lower(rtype) = "srv" THEN ToInt(weight) ELSE Missing,
        !.port = IF Lower(rtype) = "srv" THEN ToInt(port) ELSE Missing]

\* create_record returns the result of its add-record call, or raises with it
Created(call) ==
    Outcome(call.err, call.calls, call.zone, call.nid, call.result.records)

\* CreateRecordOutcome refusing an SRV record only when all three are missing
\* (int(None) then raises TypeError)
MutCreateRecordAllMissing(token, ttl, rtype, name, content, priority, weight, port, reply, zone, nid) ==
    IF Lower(rtype) = "srv" /\ (\A x \in {priority, weight, port} : x = PyNone)
    THEN Outcome(ErrSRVRequired, <<>>, zone, nid, <<>>)
    ELSE IF Lower(rtype) = "srv" /\ (\E x \in {priority, weight, port} : x = PyNone)
    THEN Outcome("TypeError", <<>>, zone, nid, <<>>)
    ELSE Created(ApiCall(token, "add-record",
                         CreateParams(ttl, rtype, name, content, priority, weight, port),
                         reply, Domain, zone, nid))

CreateRecordOutcome(token, ttl, rtype, name, content, priority, weight, port, reply, zone, nid) ==
    IF Lower(rtype) = "srv" /\ (\E x \in {priority, weight, port} : x = PyNone)
    THEN Outcome(ErrSRVRequired, <<>>, zone, nid, <<>>)
    ELSE Created(ApiCall(token, "add-record",
                         CreateParams(ttl, rtype, name, content, priority, weight, port),
                         reply, Domain, zone, nid))

----------------------------------------------------------------------------
(* Provider.update_record and Provider.delete_record *)

ErrAttribute == "AttributeError"
ErrSRVUpdate == "Modifying SRV via API needs to be implemented."

\* the operation ends with its edit-record or remove-record call
Mutated(calls, call) ==
    Outcome(call.err, calls \o call.calls, call.zone, call.nid, <<>>)

\* Updated refusing an SRV record only after the edit-record call
MutUpdatedCheckAfterEdit(token, found, rtype, content, reply, zone, nid) ==
    IF found.err # "" THEN Outcome(found.err, found.calls, zone, nid, <<>>)
    ELSE IF rtype = NoStr \/ Lower(rtype) = "srv"
    THEN [Mutated(found.calls,
                  ApiCall(token, "edit-record",
                          [NoParams EXCEPT !.id = found.records[1].id,
                                           !.content = content],
                          reply, Domain, zone, nid))
          EXCEPT !.err = IF @ # "" THEN @
                         ELSE IF rtype = NoStr THEN ErrAttribute ELSE ErrSRVUpdate]
    ELSE Mutated(found.calls,
                 ApiCall(token, "edit-record",
                         [NoParams EXCEPT !.id = found.records[1].id,
                                          !.content = content],
                         reply, Domain, zone, nid))

\* update_record from njalla.py:114 on, `found' being the identifier given or
\* resolved, or the exception the resolution raised
Updated(token, found, rtype, content, reply, zone, nid) ==
    IF found.err # "" THEN Outcome(found.err, found.calls, zone, nid, <<>>)
    ELSE IF rtype = NoStr THEN Outcome(ErrAttribute, found.calls, zone, nid, <<>>)
    ELSE IF Lower(rtype) = "srv" THEN Outcome(ErrSRVUpdate, found.calls, zone, nid, <<>>)
    ELSE Mutated(found.calls,
                 ApiCall(token, "edit-record",
                         [NoParams EXCEPT !.id = found.records[1].id,
                                          !.content = content],
                         reply, Domain, zone, nid))

UpdateRecordOutcome(token, identifier, rtype, name, content, r1, r2, zone, nid) ==
    Updated(token,
            IF Truthy(identifier) THEN Given(identifier, zone, nid)
            ELSE GetRecordIdentifier(token, rtype, name, NoStr, r1, zone, nid),
            rtype, content, r2, zone, nid)

\* delete_record from njalla.py:131 on
Deleted(token, found, reply, zone, nid) ==
    IF found.err # "" THEN Outcome(found.err, found.calls, zone, nid, <<>>)
    ELSE Mutated(found.calls,
                 ApiCall(token, "remove-record",
                         [NoParams EXCEPT !.id = found.records[1].id],
                         reply, Domain, zone, nid))

DeleteRecordOutcome(token, identifier, rtype, name, content, r1, r2, zone, nid) ==
    Deleted(token,
            IF Truthy(identifier) THEN Given(identifier, zone, nid)
            ELSE GetRecordIdentifier(token, rtype, name, content, r1, zone, nid),
            r2, zone, nid)

----------------------------------------------------------------------------
(* Provider.authenticate *)

ErrAuthentication == "AuthenticationError"

Scope(err, calls, scope) == [err |-> err, calls |-> calls, domain_id |-> scope]

\* Authenticated without the comparison of the returned name
MutAuthenticatedNoNameCheck(call, scope) ==
    IF call.err # "" THEN Scope(ErrAuthentication, call.calls, scope)
    ELSE Scope("", call.calls, Domain)

\* Authenticated clearing the scope when it fails
MutAuthenticatedResetOnFailure(call, scope) ==
    IF call.err # "" \/ call.result.name # Domain
    THEN Scope(ErrAuthentication, call.calls, NoName)
    ELSE Scope("", call.calls, Domain)

\* authenticate once its get-domain call has returned or raised
\* (njalla.py:35-41); `scope' is domain_id as it was
Authenticated(call, scope) ==
    IF call.err # "" THEN Scope(ErrAuthentication, call.calls, scope)
    ELSE IF call.result.name # Domain THEN Scope(ErrAuthentication, call.calls, scope)
    ELSE Scope("", call.calls, Domain)

AuthenticateOutcome(token, reply, who, scope) ==
    Authenticated(ApiCall(token, "get-domain", NoParams, reply, who, <<>>, 0), scope)

----------------------------------------------------------------------------
(* The arguments the operations are called with *)

NameA == <<"a">>
NameB == <<"b">>
NameAFull == <<"a", "example", "com">>

Identifiers == {PyNone} \cup {PyInt(i) : i \in 1..MaxCreates}

CreateArgs ==
    ([rtype : {"TXT"}, name : {NameA, NameAFull}, content : {"v", "w"},
      priority : {PyNone}, weight : {PyNone}, port : {PyNone}])
    \cup
    ([rtype : {"SRV"}, name : {NameA}, content : {"v"},
      priority : {PyNone, PyInt(10), PyStr(<<2, 0>>)},
      weight : {PyNone, PyInt(5)}, port : {PyNone, PyStr(<<8>>)}])

ListArgs ==
    ([rtype : {NoStr, "TXT", "SRV"}, name : {NoName, NameA, NameB},
      content : {NoStr, "v"},
      priority : {PyNone}, weight : {PyNone}, port : {PyNone}])
    \cup
    ([rtype : {NoStr, "SRV"}, name : {NoName}, content : {NoStr},
      priority : {PyNone, PyInt(10)}, weight : {PyNone, PyInt(5)},
      port : {PyNone, PyInt(8)}])

UpdateArgs ==
    ([identifier : {PyNone}, rtype : {NoStr, "TXT", "SRV"},
      name : {NoName, NameA}, content : {"w"}])
    \cup
    ([identifier : Identifiers, rtype : {NoStr, "TXT", "SRV"},
      name : {NoName}, content : {"w"}])

DeleteArgs ==
    ([identifier : {PyNone}, rtype : {NoStr, "TXT", "SRV"},
      name : {NoName, NameA}, content : {NoStr, "v"}])
    \cup
    ([identifier : Identifiers, rtype : {NoStr}, name : {NoName},
      content : {NoStr}])

\* what `last' records of an operation
Op(op, identifier, f, err, calls, records) ==
    [op |-> op, identifier |-> identifier, rtype |-> f.rtype, name |-> f.name,
     content |-> f.content, priority |-> f.priority, weight |-> f.weight,
     port |-> f.port, err |-> err, calls |-> calls, records |-> records]

NoFilter == Filter(NoStr, NoName, NoStr, PyNone, PyNone, PyNone)

\* no operation is under way: the caller has taken the last result
Idle == Op("idle", PyNone, NoFilter, "", <<>>, <<>>)

\* the replies to the two remote calls of update_record and delete_record;
\* a call that is not issued has no reply to choose
ReplyPairs(identifier) ==
    {p \in Replies \X Replies :
        /\ Truthy(identifier) => p[1] = "ok"
        /\ p[1] # "ok" => p[2] = "ok"}

----------------------------------------------------------------------------
(* The state machine *)

Init ==
    /\ remote = <<>>
    /\ nextId = 1
    /\ domain_id = NoName
    /\ auth_token \in {NoStr, "token"}
    /\ ttl_option \in {PyNone, PyInt(0), PyInt(300)}
    /\ last = Idle

Authenticate ==
    /\ last = Idle
    /\ \E reply \in Replies, who \in {Domain, OtherDomain} :
        \E out \in {AuthenticateOutcome(auth_token, reply, who, domain_id)} :
            /\ domain_id' = out.domain_id
            /\ last' = Op("authenticate", PyNone, NoFilter, out.err, out.calls, <<>>)
            /\ UNCHANGED <<remote, nextId, auth_token, ttl_option>>

CreateRecord ==
    /\ last = Idle
    /\ nextId <= MaxCreates
    /\ \E a \in CreateArgs, reply \in Replies :
        \E out \in {CreateRecordOutcome(auth_token, ttl_option, a.rtype, a.name,
                                        a.content, a.priority, a.weight, a.port,
                                        reply, remote, nextId)} :
            /\ remote' = out.zone
            /\ nextId' = out.nid
            /\ last' = Op("create", PyNone, a, out.err, out.calls, out.records)
            /\ UNCHANGED <<domain_id, auth_token, ttl_option>>

ListRecords ==
    /\ last = Idle
    /\ \E f \in ListArgs, reply \in Replies :
        \E out \in {ListRecordsOutcome(auth_token, f, reply, remote, nextId)} :
            /\ last' = Op("list", PyNone, f, out.err, out.calls, out.records)
            /\ UNCHANGED <<remote, nextId, domain_id, auth_token, ttl_option>>

UpdateRecord ==
    /\ last = Idle
    /\ \E a \in UpdateArgs : \E r \in ReplyPairs(a.identifier) :
        \E out \in {UpdateRecordOutcome(auth_token, a.identifier, a.rtype, a.name,
                                        a.content, r[1], r[2], remote, nextId)} :
            /\ remote' = out.zone
            /\ nextId' = out.nid
            /\ last' = Op("update", a.identifier,
                          Filter(a.rtype, a.name, a.content, PyNone, PyNone, PyNone),
                          out.err, out.calls, <<>>)
            /\ UNCHANGED <<domain_id, auth_token, ttl_option>>

DeleteRecord ==
    /\ last = Idle
    /\ \E a \in DeleteArgs : \E r \in ReplyPairs(a.identifier) :
        \E out \in {DeleteRecordOutcome(auth_token, a.identifier, a.rtype, a.name,
                                        a.content, r[1], r[2], remote, nextId)} :
            /\ remote' = out.zone
            /\ nextId' = out.nid
            /\ last' = Op("delete", a.identifier,
                          Filter(a.rtype, a.name, a.content, PyNone, PyNone, PyNone),
                          out.err, out.calls, <<>>)
            /\ UNCHANGED <<domain_id, auth_token, ttl_option>>

\* the operation returns or raises: its outcome is delivered to the caller
Return ==
    /\ last # Idle
    /\ last' = Idle
    /\ UNCHANGED <<remote, nextId, domain_id, auth_token, ttl_option>>

Next ==
    \/ Authenticate
    \/ CreateRecord
    \/ ListRecords
    \/ UpdateRecord
    \/ DeleteRecord
    \/ Return

Spec == Init /\ [][Next]_vars

----------------------------------------------------------------------------
(* Vocabulary of the properties *)

Mutating == {"add-record", "edit-record", "remove-record"}
CRUD == {"create", "list", "update", "delete"}

\* the step is a call of operation op (last' describes it)
Called(op) == last = Idle /\ last'.op = op

NoMutationCall(calls) == \A i \in 1..Len(calls) : calls[i].method \notin Mutating

\* the operation began with a list-records call that the remote answered
ListAnswered(l) ==
    /\ Len(l.calls) >= 1
    /\ l.calls[1].method = "list-records"
    /\ l.calls[1].err = ""

\* list_records() with no filter, answered: every record of the zone, mapped
AllRecords(zone) == ListRecordsOutcome("token", NoFilter, "ok", zone, 0).records

\* every filter field that is not None equals the record's field
WantedBy(record, f) ==
    /\ f.rtype # NoStr => record.type = f.rtype
    /\ f.name # NoName => record.name = FullName(f.name)
    /\ f.content # NoStr => record.content = f.content
    /\ f.priority # PyNone => record.priority = f.priority
    /\ f.weight # PyNone => record.weight = f.weight
    /\ f.port # PyNone => record.port = f.port

Matching(zone, f) == SelectSeq(AllRecords(zone), LAMBDA r : WantedBy(r, f))

\* the filter of a recorded list_records call
FilterOf(l) == Filter(l.rtype, l.name, l.content, l.priority, l.weight, l.port)

\* the criteria update_record (type, name) and delete_record (type, name,
\* content) resolve an identifier from
ResolveFilter(l) ==
    Filter(l.rtype, l.name, IF l.op = "update" THEN NoStr ELSE l.content,
           PyNone, PyNone, PyNone)

\* the number an int or a decimal string denotes
Number(x) == IF x.t = "int" THEN x.d[1] ELSE DigitsValue(x.d)

----------------------------------------------------------------------------
(* C1: delete_record without an identifier, with a filter that matches no   *)
(* record of the zone, returns True and does not raise.                     *)
C1_DeleteNoMatchReturnsTrue ==
    [][(/\ Called("delete")
        /\ last'.identifier = PyNone
        /\ ListAnswered(last')
        /\ Matching(remote, ResolveFilter(last')) = <<>>)
       => last'.err = ""]_vars

(* C2: update_record or delete_record without an identifier, with a filter  *)
(* that matches more than one record, raises the ambiguity error, issues no *)
(* edit-record or remove-record call and leaves the zone as it was.         *)
C2_AmbiguousNoMutation ==
    [][(/\ Called("update") \/ Called("delete")
        /\ last'.identifier = PyNone
        /\ ListAnswered(last')
        /\ Len(Matching(remote, ResolveFilter(last'))) > 1)
       => (/\ last'.err = ErrUnambiguous
           /\ NoMutationCall(last'.calls)
           /\ remote' = remote)]_vars

C2_Witness ==
    /\ last.op \in {"update", "delete"}
    /\ last.identifier = PyNone
    /\ ListAnswered(last)
    /\ Len(Matching(remote, ResolveFilter(last))) > 1
    /\ last.err = ErrUnambiguous

(* C3: an answered list_records(filter) returns, without an error, exactly  *)
(* the records of the unfiltered list whose fields equal every filter field *)
(* that is not None.                                                        *)
C3_ListIsExactFilter ==
    (last.op = "list" /\ ListAnswered(last))
    => (/\ last.err = ""
        /\ last.records = Matching(remote, FilterOf(last)))

(* C4: authenticate() succeeds, and sets the resolved scope to the          *)
(* configured domain, exactly when a token is configured and the get-domain *)
(* call is answered with a name equal to the configured domain; in every    *)
(* other case it raises AuthenticationError and does not set the scope.     *)
C4_AuthenticateIffNameMatches ==
    [][Called("authenticate")
       => LET found == /\ auth_token # NoStr
                       /\ Len(last'.calls) = 1
                       /\ last'.calls[1].method = "get-domain"
                       /\ last'.calls[1].err = ""
                       /\ last'.calls[1].name = Domain
          IN  /\ last'.err = "" <=> found
              /\ last'.err = "" => domain_id' = Domain
              /\ last'.err # "" => (/\ last'.err = ErrAuthentication
                                    /\ domain_id' = domain_id)
              /\ auth_token = NoStr => last'.calls = <<>>]_vars

C4_Witness ==
    /\ last.op = "authenticate"
    /\ last.err = ErrAuthentication
    /\ Len(last.calls) = 1
    /\ last.calls[1].err = ""
    /\ last.calls[1].name = OtherDomain
    /\ domain_id = NoName

(* C5: update_record on type SRV always fails, and fails before any remote  *)
(* call is issued.                                                          *)
C5_SRVUpdateFailsBeforeAnyCall ==
    (last.op = "update" /\ last.rtype = "SRV")
    => (last.err # "" /\ last.calls = <<>>)

(* C6: create_record of type SRV with priority, weight or port missing      *)
(* raises the validation error, issues no remote call and leaves the zone   *)
(* as it was.                                                               *)
C6_SRVCreateNeedsAllThree ==
    [][(/\ Called("create")
        /\ Lower(last'.rtype) = "srv"
        /\ PyNone \in {last'.priority, last'.weight, last'.port})
       => (/\ last'.err = ErrSRVRequired
           /\ last'.calls = <<>>
           /\ remote' = remote)]_vars

C6_Witness ==
    /\ last.op = "create"
    /\ last.rtype = "SRV"
    /\ last.priority # PyNone
    /\ last.weight # PyNone
    /\ last.port = PyNone
    /\ last.err = ErrSRVRequired

\* the ttl a created record is to carry: the ttl option when one is set (a
\* value that is neither None nor 0, njalla.py:64), otherwise 60
ExpectedTTL == IF ttl_option \in {PyNone, PyInt(0)} THEN PyInt(60) ELSE ttl_option

\* the list_records(type, name) that follows a create_record, answered
ListAfterCreate ==
    ListRecordsOutcome(auth_token,
                       Filter(last.rtype, last.name, NoStr, PyNone, PyNone, PyNone),
                       "ok", remote, nextId)

(* C7: after a successful create_record(type, name, content) of a record    *)
(* that is not SRV, list_records(type, name) contains the created record    *)
(* with that content and with ttl 60, or the ttl option when one is set.    *)
C7_CreateThenList ==
    (last.op = "create" /\ last.err = "" /\ Lower(last.rtype) # "srv")
    => (/\ ListAfterCreate.err = ""
        /\ Len(last.records) = 1
        /\ \E i \in 1..Len(ListAfterCreate.records) :
              /\ ListAfterCreate.records[i].id = last.records[1].id
              /\ ListAfterCreate.records[i].content = last.content
              /\ ListAfterCreate.records[i].ttl = ExpectedTTL)

C7_Witness ==
    /\ last.op = "create"
    /\ last.err = ""
    /\ last.rtype = "TXT"
    /\ last.name = NameA
    /\ last.content = "v"
    /\ ttl_option = PyInt(300)
    /\ Len(remote) = 2

C9_CallsOnlyAfterAuthenticate ==
    (last.op \in CRUD /\ last.calls # <<>>) => domain_id = Domain

(* C9, as amended: the resolved scope is set only by a successful           *)
(* authenticate(), from unset to the configured domain, and no operation    *)
(* changes it afterwards; every remote call of every operation is scoped to *)
(* the configured domain, whether the scope is set or not.                  *)
C9_ScopeSetOnceByAuthenticate ==
    [][/\ domain_id' # domain_id
          => (/\ Called("authenticate")
              /\ last'.err = ""
              /\ domain_id = NoName
              /\ domain_id' = Domain)
       /\ \A i \in 1..Len(last'.calls) : last'.calls[i].domain = Domain]_vars

C9_Witness ==
    /\ last.op \in CRUD
    /\ last.calls # <<>>
    /\ last.err = ""
    /\ domain_id = Domain

(* C10: an operation that raises leaves the zone as it was, and an          *)
(* operation issues at most one add-record, edit-record or remove-record    *)
(* call, as its last remote call; the zone changes only when that call is   *)
(* answered.                                                                *)
C10_NoPartialSuccess ==
    [][(last = Idle /\ last'.op \in CRUD)
       => (/\ last'.err # "" => remote' = remote
           /\ \A i \in 1..Len(last'.calls) :
                 last'.calls[i].method \in Mutating => i = Len(last'.calls)
           /\ remote' # remote
                 => (/\ last'.calls # <<>>
                     /\ last'.calls[Len(last'.calls)].method \in Mutating
                     /\ last'.calls[Len(last'.calls)].err = ""))]_vars

C10_Witness ==
    /\ last.op = "delete"
    /\ last.err = ErrRemote
    /\ Len(last.calls) = 2
    /\ last.calls[1].err = ""
    /\ last.calls[2].method = "remove-record"
    /\ Len(Matching(remote, ResolveFilter(last))) = 1

====
